---- MODULE Spec2Model ----
(***************************************************************************)
(* A model of the ClamAV bytecode emulator VMM (clamemu/vmm.c): the page   *)
(* table built by map_pages, the 15-slot page cache with its last-used     *)
(* shortcut, page-in / page-out against the input file and the temporary   *)
(* file, and the read / write / protection entry points.                   *)
(***************************************************************************)
EXTENDS Integers, Sequences, FiniteSets, TLC

(***************************************************************************)
(* Program constants.                                                      *)
(***************************************************************************)
PAGESIZE == 4096
MINALIGN == 512
NCACHED == 15
\* the section characteristics, each as the number of its bit: chr is
\* modelled as the set of the numbers of the bits that are set
IMAGE_SCN_CNT_UNINITIALIZED_DATA == 7
IMAGE_SCN_MEM_EXECUTE == 29
IMAGE_SCN_MEM_READ == 30
IMAGE_SCN_MEM_WRITE == 31
NOFD == -1
NULLSLOT == -1
INFD == 3
TMPFD == 4

\* the width of the bit-field file_offset.  The 32-bit quantities of the
\* program (addresses, sizes, offsets) stay below 2^31 for every input drawn
\* here, so that none of them wraps.
FILE_OFFSET_MOD == 2 ^ 23
\* ~0u, the page number no address has
NOPAGE == -1

\* the enum of vmm.h, used only through 1 << flag_*: a permission bitset is
\* modelled as the set of the flags whose bit is set
flag_r == "r"
flag_w == "w"
flag_x == "x"
AllFlags == {flag_r, flag_w, flag_x}

\* return codes (vmm.h gives the numbers; only their identity matters)
RC_OK == "0"
EMU_ERR_VMM_READ == "-EMU_ERR_VMM_READ"
EMU_ERR_VMM_WRITE == "-EMU_ERR_VMM_WRITE"
EMU_ERR_GENERIC == "-EMU_ERR_GENERIC"
RC_GARBAGE == "indeterminate"

(***************************************************************************)
(* Bounds of the model.                                                    *)
(***************************************************************************)
\* bytes 0..MaxOff of every 4096-byte buffer are tracked
MaxOff == 3
\* and so are its last MaxTail bytes
MaxTail == 2
\* length of the scanned file, in MINALIGN blocks
InFileBlocks == 160
\* accesses per run of the general specification
MaxOps == 2
\* injected I/O failures per run
MaxIOFail == 1
\* section addresses drawn for construction, in half pages: 0 .. MaxGenRva
MaxGenRva == 4
\* pages written in a sequential run
MaxSeqWrites == 1
\* accesses in a run of accesses that cross a page boundary
MaxCrossOps == 8
\* pages written in such a run
MaxCrossWrites == 1

TailOffs == (PAGESIZE - MaxTail) .. (PAGESIZE - 1)
Offs == (0 .. MaxOff) \cup TailOffs
InFileSize == InFileBlocks * MINALIGN

HasBit(chr, bit) == bit \in chr

(***************************************************************************)
(* The scanned file: the byte at position pos.  Positive, and different    *)
(* for the tracked bytes of different MINALIGN blocks, so that a page's    *)
(* content tells where it was read from.                                   *)
(***************************************************************************)
FileByte(pos) == 1 + ((((pos \div MINALIGN) * 8) + (pos % MINALIGN)) % 127)

(***************************************************************************)
(* page_t and cached_page_t after calloc.                                  *)
(***************************************************************************)
ZeroPage ==
  [file_offset |-> 0, flag_rwx |-> {}, modified |-> 0, init |-> 0,
   cached_page_idx |-> 0]

ZeroData == [o \in Offs |-> 0]

\* flag_rwx is the set of the three permission bits of the byte and
\* flag_rwx_hi the byte's other bits; reserved0 is its two bytes in memory
ZeroCached ==
  [flag_rwx |-> {}, flag_rwx_hi |-> 0, dirty |-> 0, reserved0 |-> <<0, 0>>,
   data |-> ZeroData]

(***************************************************************************)
(* Input images: struct cli_pe_hook_data and struct cli_exe_section as the *)
(* PE parser hands them over.                                              *)
(***************************************************************************)
Sec(rva, vsz, raw, chr) ==
  [rva |-> rva, urva |-> rva, vsz |-> vsz, raw |-> raw, chr |-> chr]

Img(machine, magic, base, sections) ==
  [Machine |-> machine, Magic |-> magic, ImageBase |-> base,
   sections |-> sections]

CHR_RX == {IMAGE_SCN_MEM_READ, IMAGE_SCN_MEM_EXECUTE}
CHR_R == {IMAGE_SCN_MEM_READ}
CHR_RW == {IMAGE_SCN_MEM_READ, IMAGE_SCN_MEM_WRITE}
CHR_RW_BSS == CHR_RW \cup {IMAGE_SCN_CNT_UNINITIALIZED_DATA}

\* header page 0 (r--), data page 1 (rw-), bss page 2 (rw-, zero-filled)
ImgMain ==
  Img(332, 267, 0,
      << Sec(4096, 4096, 1024, CHR_RW), Sec(8192, 4096, 5120, CHR_RW_BSS) >>)
\* the scenario of the specification: base 0x400000, one r-x section
ImgBased == Img(332, 267, 4194304, << Sec(4096, 8192, 1024, CHR_RX) >>)
\* a bss section and an initialized section that share page 1
ImgShared ==
  Img(332, 267, 0,
      << Sec(4096, 2048, 512, CHR_RW_BSS), Sec(6144, 2048, 1536, CHR_R) >>)
ImgGap == Img(332, 267, 0, << Sec(0, 4096, 0, CHR_RW), Sec(8192, 4096, 4096, CHR_RW) >>)
ImgOverlap == Img(332, 267, 0, << Sec(0, 8192, 0, CHR_RW), Sec(4096, 4096, 4096, CHR_RW) >>)
ImgReorder == Img(332, 267, 0, << Sec(8192, 4096, 0, CHR_RW), Sec(0, 4096, 4096, CHR_RW) >>)
ImgReorderLow == Img(332, 267, 0, << Sec(4096, 4096, 0, CHR_RW), Sec(0, 8192, 4096, CHR_RW) >>)
ImgPE32Plus == Img(332, 523, 0, << Sec(4096, 4096, 1024, CHR_RW) >>)
ImgNoSections == Img(332, 267, 0, << >>)
ImgArch == Img(34404, 267, 0, << Sec(4096, 4096, 1024, CHR_RW) >>)

Images ==
  {ImgMain, ImgBased, ImgShared, ImgGap, ImgOverlap, ImgReorder,
   ImgReorderLow, ImgPE32Plus, ImgNoSections, ImgArch}

\* every layout of one or two sections that start on a half page
GenSections ==
  {Sec(k * 2048, vsz, 1024, chr) :
     k \in 0 .. MaxGenRva, vsz \in {2048, 4096}, chr \in {CHR_RW, CHR_RW_BSS}}

GenImages ==
  {Img(332, 267, 0, <<a>>) : a \in GenSections} \cup
  {Img(332, 267, 0, <<a, b>>) : a \in GenSections, b \in GenSections} \cup
  Images

\* eighteen writable pages backed by the file from offset 0
ImgBig == Img(332, 267, 0, << Sec(0, 18 * PAGESIZE, 0, CHR_RW) >>)

(***************************************************************************)
(* map_pages.  The state threaded through the loops is                     *)
(* [pf: the page table, n: n_pages, ovf: a store went past the table].     *)
(***************************************************************************)
\* v->page_flags[i] = e; an index at or past n_pages is a store outside the
\* calloc'ed table
StorePage(m, i, e) ==
  IF i < m.n THEN [m EXCEPT !.pf = [m.pf EXCEPT ![i] = e]]
  ELSE [m EXCEPT !.ovf = TRUE]

LoadPage(m, i) == IF i < m.n THEN m.pf[i] ELSE ZeroPage

RECURSIVE MapHeader(_, _, _)
MapHeader(m, i, rva0) ==
  IF i * PAGESIZE < rva0
    THEN MapHeader(
           StorePage(m, i,
             [LoadPage(m, i) EXCEPT
                !.file_offset = ((i * PAGESIZE) \div MINALIGN) % FILE_OFFSET_MOD,
                !.flag_rwx = {flag_r}]),
           i + 1, rva0)
    ELSE m

SectionFlags(chr) ==
  (IF HasBit(chr, IMAGE_SCN_MEM_EXECUTE) THEN {flag_x} ELSE {}) \cup
  (IF HasBit(chr, IMAGE_SCN_MEM_READ) THEN {flag_r} ELSE {}) \cup
  (IF HasBit(chr, IMAGE_SCN_MEM_WRITE) THEN {flag_w} ELSE {})

\* the loop over the pages of one section; rc = -1 on "rva out of range"
RECURSIVE MapSectionPages(_, _, _, _)
MapSectionPages(m, section, j, pages) ==
  IF j >= pages THEN [rc |-> 0, m |-> m]
  ELSE
    LET page == (section.rva \div PAGESIZE) + j
        zeroinit == HasBit(section.chr, IMAGE_SCN_CNT_UNINITIALIZED_DATA)
    IN IF page >= m.n THEN [rc |-> -1, m |-> m]
       ELSE
         LET p0 == m.pf[page]
             p1 == [p0 EXCEPT !.init = IF zeroinit THEN 0 ELSE 1]
             p2 == IF zeroinit THEN p1
                   ELSE [p1 EXCEPT !.file_offset =
                           ((section.raw + j * PAGESIZE) \div MINALIGN)
                             % FILE_OFFSET_MOD]
             p3 == [p2 EXCEPT !.flag_rwx = p2.flag_rwx \cup SectionFlags(section.chr)]
         IN MapSectionPages(StorePage(m, page, p3), section, j + 1, pages)

\* the test of line 106 with > for !=: only a gap is refused
DiscontiguousGapOnly(sections, i) ==
  i > 1 /\ sections[i].urva - sections[i - 1].urva > sections[i - 1].vsz

\* the test of line 106: the section does not start where the previous ends
Discontiguous(sections, i) ==
  i > 1 /\ sections[i].urva - sections[i - 1].urva # sections[i - 1].vsz

RECURSIVE MapSections(_, _, _)
MapSections(m, sections, i) ==
  IF i > Len(sections) THEN [rc |-> 0, m |-> m]
  ELSE IF Discontiguous(sections, i) THEN [rc |-> -1, m |-> m]
  ELSE
    LET pages == (sections[i].vsz + 4095) \div PAGESIZE
        r == MapSectionPages(m, sections[i], 0, pages)
    IN IF r.rc = -1 THEN r ELSE MapSections(r.m, sections, i + 1)

SupportedMachine(machine) == machine \in {332, 333, 334}

map_pages(m, pedata) ==
  IF ~SupportedMachine(pedata.Machine) THEN [rc |-> -1, m |-> m]
  ELSE MapSections(MapHeader(m, 0, pedata.sections[1].rva), pedata.sections, 1)

(***************************************************************************)
(* cli_emu_vmm_new: [null: NULL is returned, v: the emu_vmm_t otherwise,   *)
(* ovf: map_pages stored outside the page table].                          *)
(***************************************************************************)
NPages(sections) ==
  LET last == sections[Len(sections)]
  IN (last.rva + last.vsz + 4095) \div PAGESIZE

NewVmm(pedata, pf, n) ==
  [cached |-> [s \in 0 .. NCACHED - 1 |-> ZeroCached],
   cached_idx |-> 0,
   lastused_page |-> NOPAGE,
   lastused_page_idx |-> 0,
   imagebase |-> pedata.ImageBase,
   page_flags |-> pf,
   n_pages |-> n,
   tmpfd |-> NOFD,
   tmpfd_written |-> 0,
   infd |-> INFD,
   tmpdata |-> << >>,
   tmpsize |-> 0]

cli_emu_vmm_new(pedata) ==
  IF pedata.Magic = 523
    THEN [null |-> TRUE, v |-> NewVmm(pedata, << >>, 0), ovf |-> FALSE]
  ELSE IF Len(pedata.sections) = 0
    THEN [null |-> TRUE, v |-> NewVmm(pedata, << >>, 0), ovf |-> FALSE]
  ELSE
    LET n == NPages(pedata.sections)
        m0 == [pf |-> [i \in 0 .. n - 1 |-> ZeroPage], n |-> n, ovf |-> FALSE]
        r == map_pages(m0, pedata)
    IN IF r.rc = -1
         THEN [null |-> TRUE, v |-> NewVmm(pedata, << >>, 0), ovf |-> r.m.ovf]
         ELSE [null |-> FALSE, v |-> NewVmm(pedata, r.m.pf, n), ovf |-> r.m.ovf]

(***************************************************************************)
(* The two files.  tmpdata maps the byte positions of the temporary file   *)
(* whose value is tracked to that value, tmpsize is the file's length.     *)
(***************************************************************************)
\* the value of a byte of the temporary file that lies inside the file but
\* was written from an untracked byte of a buffer
UNTRACKED == -1

\* pwrite(tmpfd, data, 4096, pos)
TmpWrite(v, data, pos) ==
  LET here == {pos + o : o \in Offs}
  IN [v EXCEPT
        !.tmpdata = [q \in (DOMAIN v.tmpdata) \cup here |->
                       IF q \in here THEN data[q - pos] ELSE v.tmpdata[q]],
        !.tmpsize = IF pos + PAGESIZE > v.tmpsize THEN pos + PAGESIZE
                    ELSE v.tmpsize]

\* pread(fd, data, 4096, pos) of an open file: the bytes past the end of the
\* file are not read, and data keeps what it held there
PreadData(v, fromTmp, data, pos) ==
  [o \in Offs |->
     IF fromTmp
       THEN IF pos + o \in DOMAIN v.tmpdata THEN v.tmpdata[pos + o]
            ELSE IF pos + o < v.tmpsize THEN UNTRACKED
            ELSE data[o]
       ELSE IF pos + o < InFileSize THEN FileByte(pos + o) ELSE data[o]]

(***************************************************************************)
(* The handlers work on st = [v: the emu_vmm_t, oob: what lies behind the  *)
(* end of page_flags, corrupt: a store went there, ev: in order, the       *)
(* page-ins <<"in", slot, page>>, the page-outs <<"out", slot, page>>, the *)
(* failed system calls <<"fail", call, page>> and the uses of an entry     *)
(* behind the table <<"oob", 0, page>>].  env says which of the system     *)
(* calls of this call succeed.                                             *)
(***************************************************************************)
GetPage(st, pg) ==
  IF pg < st.v.n_pages THEN st.v.page_flags[pg] ELSE st.oob

SetPage(st, pg, e) ==
  IF pg < st.v.n_pages THEN [st EXCEPT !.v.page_flags[pg] = e]
  ELSE [st EXCEPT !.oob = e, !.corrupt = TRUE]

AddEv(st, e) == [st EXCEPT !.ev = Append(st.ev, e)]

\* lines 152-156: pwrite of the slot's buffer at the page's offset
PageoutWrite(st, ci, pg, env) ==
  IF st.v.tmpfd = NOFD THEN st
  ELSE IF ~env.pwrite THEN AddEv(st, <<"fail", "pwrite", pg>>)
  ELSE [st EXCEPT !.v = TmpWrite(st.v, st.v.cached[ci].data,
                                 GetPage(st, pg).file_offset * MINALIGN)]

\* lines 143-150 when a temporary file is there or can be made: the page
\* gets the next offset of the temporary file
PageoutAssign(st, pg) ==
  SetPage([st EXCEPT
             !.v.tmpfd = IF st.v.tmpfd = NOFD THEN TMPFD ELSE st.v.tmpfd,
             !.v.tmpfd_written = st.v.tmpfd_written + (PAGESIZE \div MINALIGN)],
          pg,
          [GetPage(st, pg) EXCEPT
             !.init = 1, !.modified = 1,
             !.file_offset = st.v.tmpfd_written % FILE_OFFSET_MOD])

\* vmm_pageout(v, c, p): c is slot ci, p the entry of page pg
vmm_pageout(st, ci, pg, env) ==
  IF GetPage(st, pg).modified # 0
    THEN PageoutWrite(
           SetPage(AddEv(st, <<"out", ci, pg>>), pg,
                   [GetPage(st, pg) EXCEPT !.init = 1]),
           ci, pg, env)
  ELSE IF st.v.tmpfd = NOFD /\ ~env.gentemp
    THEN SetPage(AddEv(AddEv(st, <<"out", ci, pg>>), <<"fail", "gentemp", pg>>),
                 pg, [GetPage(st, pg) EXCEPT !.init = 1, !.modified = 1])
  ELSE PageoutWrite(PageoutAssign(AddEv(st, <<"out", ci, pg>>), pg), ci, pg, env)

\* lines 161-163: the slot to fill is cached_idx, which moves on
PageinAdvance(st) ==
  [st EXCEPT !.v.cached_idx =
     IF st.v.cached_idx + 1 >= NCACHED THEN 0 ELSE st.v.cached_idx + 1]

\* lines 165-166
PageinEvict(st, ci, pg, env) ==
  IF st.v.cached[ci].dirty # 0 THEN vmm_pageout(st, ci, pg, env) ELSE st

\* lines 168-170
PageinClaim(st, ci, pg) ==
  SetPage([st EXCEPT !.v.cached[ci].flag_rwx = GetPage(st, pg).flag_rwx,
                     !.v.cached[ci].flag_rwx_hi = 0,
                     !.v.cached[ci].dirty = 0,
                     !.ev = Append(st.ev, <<"in", ci, pg>>)],
          pg,
          [GetPage(st, pg) EXCEPT !.cached_page_idx = st.v.cached_idx + 1])

\* lines 171-177: [st, c], c the slot returned or NULLSLOT for NULL
PageinLoad(st, ci, pg, preadok) ==
  IF GetPage(st, pg).init = 0
    THEN [st |-> [st EXCEPT !.v.cached[ci].data = ZeroData], c |-> ci]
  ELSE IF (IF GetPage(st, pg).modified # 0 THEN st.v.tmpfd ELSE st.v.infd) = NOFD
    THEN [st |-> st, c |-> NULLSLOT]
  ELSE IF ~preadok
    THEN [st |-> AddEv(st, <<"fail", "pread", pg>>), c |-> NULLSLOT]
  ELSE [st |-> [st EXCEPT !.v.cached[ci].data =
                  PreadData(st.v, GetPage(st, pg).modified # 0,
                            st.v.cached[ci].data,
                            GetPage(st, pg).file_offset * MINALIGN)],
        c |-> ci]

vmm_pagein(st, pg, preadok, env) ==
  PageinLoad(
    PageinClaim(PageinEvict(PageinAdvance(st), st.v.cached_idx, pg, env),
                st.v.cached_idx, pg),
    st.v.cached_idx, pg, preadok)

\* lines 190-202: the page is not the last used one and not behind n_pages
CacheLookup(st, page, env) ==
  IF GetPage(st, page).cached_page_idx # 0
    THEN [st |-> [st EXCEPT !.v.lastused_page = page,
                            !.v.lastused_page_idx =
                              GetPage(st, page).cached_page_idx - 1],
          c |-> GetPage(st, page).cached_page_idx - 1]
    ELSE vmm_pagein(
           IF page + 1 < st.v.n_pages
             THEN vmm_pagein(st, page + 1, env.pread_next, env).st
             ELSE st,
           page, env.pread, env)

\* [st, c], c the slot returned or NULLSLOT for NULL
vmm_cache_2page(st, va, env) ==
  IF st.v.lastused_page = va \div PAGESIZE
    THEN [st |-> st, c |-> st.v.lastused_page_idx]
  ELSE IF va \div PAGESIZE > st.v.n_pages
    THEN [st |-> st, c |-> NULLSLOT]
  ELSE CacheLookup(
         IF va \div PAGESIZE >= st.v.n_pages
           THEN AddEv(st, <<"oob", 0, va \div PAGESIZE>>)
           ELSE st,
         va \div PAGESIZE, env)

\* the number of the bit of each permission in flag_rwx: 1 << flag_r,
\* 1 << flag_w and 1 << flag_x are the three bits of the field flag_rwx:3
FlagBit(f) == IF f = flag_r THEN 0 ELSE IF f = flag_w THEN 1 ELSE 2

\* the low three bits of the byte flag_rwx, and the permissions in a byte
FlagByte(flags) ==
  (IF flag_r \in flags THEN 2 ^ FlagBit(flag_r) ELSE 0) +
  (IF flag_w \in flags THEN 2 ^ FlagBit(flag_w) ELSE 0) +
  (IF flag_x \in flags THEN 2 ^ FlagBit(flag_x) ELSE 0)

FlagSet(byte) == {f \in AllFlags : (byte \div (2 ^ FlagBit(f))) % 2 = 1}

\* The memory behind data[4095] of slot c, byte j of it (j < 3): the header
\* of the next element of cached[], and behind the last element the member
\* cached_idx, whose bytes are those of a little-endian host (the host the
\* typed writes, which store the host's representation, are right on).
Behind(v, c, j) ==
  IF c + 1 < NCACHED
    THEN IF j = 0 THEN FlagByte(v.cached[c + 1].flag_rwx) + v.cached[c + 1].flag_rwx_hi
         ELSE IF j = 1 THEN v.cached[c + 1].dirty
         ELSE v.cached[c + 1].reserved0[j - 1]
    ELSE (v.cached_idx \div (256 ^ j)) % 256

\* byte b stored there
StoreBehind(v, c, j, b) ==
  IF c + 1 < NCACHED
    THEN IF j = 0
           THEN [v EXCEPT !.cached[c + 1].flag_rwx = FlagSet(b),
                          !.cached[c + 1].flag_rwx_hi = b - FlagByte(FlagSet(b))]
         ELSE IF j = 1 THEN [v EXCEPT !.cached[c + 1].dirty = b]
         ELSE [v EXCEPT !.cached[c + 1].reserved0[j - 1] = b]
    ELSE [v EXCEPT !.cached_idx =
            v.cached_idx - (((v.cached_idx \div (256 ^ j)) % 256) * (256 ^ j))
              + (b * (256 ^ j))]

\* the bytes value[k], k > n, stored behind data[4095] of slot c, n of the
\* bytes of value having gone into data
RECURSIVE StoreTail(_, _, _, _, _)
StoreTail(v, c, value, n, k) ==
  IF k > Len(value) THEN v
  ELSE StoreTail(StoreBehind(v, c, k - n - 1, value[k]), c, value, n, k + 1)

\* the len bytes of slot c from offset off on
SlotBytes(v, c, off, len) ==
  [k \in 1 .. len |->
     IF off + k - 1 < PAGESIZE THEN v.cached[c].data[off + k - 1]
     ELSE Behind(v, c, off + k - 1 - PAGESIZE)]

\* lines 210-215, r what vmm_cache_2page returned: [st, rc, bytes], bytes is
\* what memcpy put into *value, << >> if nothing
ReadFrom(r, va, len, flag) ==
  IF r.c # NULLSLOT /\ flag \in r.st.v.cached[r.c].flag_rwx
    THEN [st |-> r.st, rc |-> RC_OK,
          bytes |-> SlotBytes(r.st.v, r.c, va % PAGESIZE, len)]
    ELSE [st |-> r.st, rc |-> EMU_ERR_VMM_READ, bytes |-> << >>]

vmm_read(st, va, len, flag, env) ==
  ReadFrom(vmm_cache_2page(st, va, env), va, len, flag)

\* memcpy(data, value, len): the bytes that land in data of slot c
StoreData(v, c, off, value) ==
  [v EXCEPT !.cached[c].data =
     [o \in Offs |->
        IF o >= off /\ o < off + Len(value) THEN value[o - off + 1]
        ELSE v.cached[c].data[o]]]

\* p->dirty = 1, after the copy
StoreDirty(v, c) == [v EXCEPT !.cached[c].dirty = 1]

\* lines 260-266, r what vmm_cache_2page returned: [st, rc]
WriteTo(r, off, value) ==
  IF r.c # NULLSLOT /\ flag_w \in r.st.v.cached[r.c].flag_rwx
    THEN [st |-> [r.st EXCEPT
                    !.v = StoreDirty(
                            StoreTail(StoreData(r.st.v, r.c, off, value), r.c, value,
                                      IF off + Len(value) > PAGESIZE
                                        THEN PAGESIZE - off ELSE Len(value),
                                      IF off + Len(value) > PAGESIZE
                                        THEN PAGESIZE - off + 1
                                        ELSE Len(value) + 1),
                            r.c)],
          rc |-> RC_OK]
    ELSE [st |-> r.st, rc |-> EMU_ERR_VMM_WRITE]

cli_emu_vmm_write(st, va, value, env) ==
  WriteTo(vmm_cache_2page(st, va, env), va % PAGESIZE, value)

\* little-endian bytes of a value and back (le16_to_host, le32_to_host)
ToLE(value, len) == [k \in 1 .. len |-> (value \div (256 ^ (k - 1))) % 256]

RECURSIVE FromLE(_)
FromLE(bytes) ==
  IF Len(bytes) = 0 THEN 0
  ELSE bytes[1] + 256 * FromLE(Tail(bytes))

\* [st, rc, bytes]
cli_emu_vmm_read_r(st, va, len, env) == vmm_read(st, va, len, flag_r, env)

cli_emu_vmm_read_x(st, va, len, env) == vmm_read(st, va, len, flag_x, env)

\* cli_emu_vmm_read8/16/32: [st, rc, value].  The local a is copied to *value
\* whatever rc is: after a failed read *value holds what a happened to hold (a0)
TypedValue(r, a0) ==
  [st |-> r.st, rc |-> r.rc,
   value |-> IF r.rc = RC_OK THEN FromLE(r.bytes) ELSE a0]

TypedRead(st, va, len, a0, env) ==
  TypedValue(vmm_read(st, va, len, flag_r, env), a0)

cli_emu_vmm_read8(st, va, a0, env) == TypedRead(st, va, 1, a0, env)

cli_emu_vmm_read16(st, va, a0, env) == TypedRead(st, va, 2, a0, env)

cli_emu_vmm_read32(st, va, a0, env) == TypedRead(st, va, 4, a0, env)

\* uint8_t a = value, uint16_t a = value, uint32_t a = value
Narrow(value, len) == IF len >= 4 THEN value ELSE value % (256 ^ len)

\* cli_emu_vmm_write8/16/32: [st, rc]
cli_emu_vmm_write8(st, va, value, env) ==
  cli_emu_vmm_write(st, va, ToLE(Narrow(value, 1), 1), env)

cli_emu_vmm_write16(st, va, value, env) ==
  cli_emu_vmm_write(st, va, ToLE(Narrow(value, 2), 2), env)

cli_emu_vmm_write32(st, va, value, env) ==
  cli_emu_vmm_write(st, va, ToLE(Narrow(value, 4), 4), env)

\* cli_emu_vmm_prot_set: [st, rc]; the function ends without a return
\* statement, so the value the caller sees on success is indeterminate (ret)
cli_emu_vmm_prot_set(st, va, rwx, ret) ==
  LET page == va \div PAGESIZE
  IN IF page >= st.v.n_pages THEN [st |-> st, rc |-> EMU_ERR_GENERIC]
     ELSE [st |-> [st EXCEPT !.v.page_flags[page].flag_rwx = rwx \cap AllFlags],
           rc |-> ret]

\* cli_emu_vmm_prot_get: [rc, prot]
cli_emu_vmm_prot_get(st, va) ==
  LET page == va \div PAGESIZE
  IN IF page >= st.v.n_pages THEN [rc |-> EMU_ERR_GENERIC, prot |-> {}]
     ELSE [rc |-> RC_OK, prot |-> st.v.page_flags[page].flag_rwx]

(***************************************************************************)
(* The state.  v is the emu_vmm_t, img the image it was built from, pc the *)
(* caller's position; the other variables record the history the           *)
(* properties speak about.                                                 *)
(***************************************************************************)
VARIABLES
  pc,        \* "new": before cli_emu_vmm_new, "run": v is live,
             \* "null": construction returned NULL, "abort": the process died
  img,       \* the pedata and sections of the scan
  v,         \* struct emu_vmm
  nops,      \* calls made so far
  ioFails,   \* calls so far in which a system call failed
  slotPage,  \* slot -> the page last paged into it, -1 if none
  shadow,    \* address -> the bytes of the last successful write that began there
  written,   \* the pages some write to an address of theirs succeeded on
  evicted,   \* the pages whose slot was paged out (dirty) for another page
  loaded,    \* the pages paged in, in order
  corrupt,   \* a store went outside page_flags
  mode       \* "any": the caller picks any address, "seq": pages in sequence,
             \* "cross": accesses that cross a page boundary

vars ==
  <<pc, img, v, nops, ioFails, slotPage, shadow, written, evicted, loaded,
    corrupt, mode>>

EnvOk == [gentemp |-> TRUE, pwrite |-> TRUE, pread_next |-> TRUE, pread |-> TRUE]

\* at most one kind of system call fails within one call
Envs ==
  {EnvOk, [EnvOk EXCEPT !.gentemp = FALSE], [EnvOk EXCEPT !.pwrite = FALSE],
   [EnvOk EXCEPT !.pread_next = FALSE], [EnvOk EXCEPT !.pread = FALSE]}

\* what may lie behind the last entry of page_flags
OobEntries ==
  {ZeroPage, [ZeroPage EXCEPT !.cached_page_idx = 1],
   [ZeroPage EXCEPT !.init = 1, !.flag_rwx = AllFlags]}

\* what an uninitialized local may hold
GarbageVals == {0, 204}

WriteVals == {287454020, 1432778632}

AccOffs == {0}

Lens == {1, 2, 4}

\* the permissions the caller sets
ProtVals == SUBSET AllFlags

StartOf(vm, oob) == [v |-> vm, oob |-> oob, corrupt |-> FALSE, ev |-> << >>]

Start(oob) == StartOf(v, oob)

OobForIn(vm, va) == IF va \div PAGESIZE = vm.n_pages THEN OobEntries ELSE {ZeroPage}

OobFor(va) == OobForIn(v, va)

\* the addresses the caller uses: every page of the image and the two pages
\* behind it as relative addresses, and the first section's virtual address
Vas ==
  {p * PAGESIZE + o : p \in 0 .. v.n_pages + 1, o \in AccOffs} \cup
  {v.imagebase + img.sections[1].rva + o : o \in AccOffs}

Failed(ev) == \E k \in 1 .. Len(ev) : ev[k][1] = "fail"

\* [sp: slotPage, out: evicted, ld: loaded] after the page-ins and page-outs
\* of ev
RECURSIVE ApplyEv(_, _)
ApplyEv(g, ev) ==
  IF Len(ev) = 0 THEN g
  ELSE LET e == ev[1]
       IN ApplyEv(
            IF e[1] = "in"
              THEN [g EXCEPT !.sp[e[2]] = e[3], !.ld = Append(g.ld, e[3])]
            ELSE IF e[1] = "out" THEN [g EXCEPT !.out = g.out \cup {g.sp[e[2]]}]
            ELSE g,
            Tail(ev))

Overlap(a, la, b, lb) == a < b + lb /\ b < a + la

ShadowWrite(sh, va, bytes) ==
  LET keep == {a \in DOMAIN sh : ~Overlap(a, Len(sh[a]), va, Len(bytes))}
  IN [a \in keep \cup {va} |-> IF a = va THEN bytes ELSE sh[a]]

\* the bookkeeping common to every access, the caller's position apart
Tally(st, env) ==
  /\ env # EnvOk => (ioFails < MaxIOFail /\ Failed(st.ev))
  /\ v' = st.v
  /\ corrupt' = (corrupt \/ st.corrupt)
  /\ LET g == ApplyEv([sp |-> slotPage, out |-> evicted, ld |-> loaded], st.ev)
     IN slotPage' = g.sp /\ evicted' = g.out /\ loaded' = g.ld
  /\ ioFails' = ioFails + (IF env = EnvOk THEN 0 ELSE 1)
  /\ nops' = nops + 1
  /\ UNCHANGED <<img, mode>>

\* an access after which the caller goes on
Account(st, env) == Tally(st, env) /\ UNCHANGED pc

CanCall == pc = "run" /\ mode = "any" /\ nops < MaxOps

InitWith(images, m) ==
  /\ pc = "new"
  /\ img \in images
  /\ v = NewVmm(img, << >>, 0)
  /\ nops = 0
  /\ ioFails = 0
  /\ slotPage = [s \in 0 .. NCACHED - 1 |-> -1]
  /\ shadow = << >>
  /\ written = {}
  /\ evicted = {}
  /\ loaded = << >>
  /\ corrupt = FALSE
  /\ mode = m

Init == InitWith(Images, "any")

\* cli_emu_vmm_new; when map_pages stored outside the table the heap is
\* damaged and the process may die instead of returning
New ==
  /\ pc = "new"
  /\ LET r == cli_emu_vmm_new(img)
     IN /\ pc' \in (IF r.null THEN {"null"} ELSE {"run"}) \cup
                   (IF r.ovf THEN {"abort"} ELSE {})
        /\ v' = r.v
        /\ corrupt' = r.ovf
  /\ UNCHANGED <<img, nops, ioFails, slotPage, shadow, written, evicted,
                 loaded, mode>>

InSpan(va, len) == (va % PAGESIZE) + len - 1 <= MaxOff

DoRead(r, env) == Account(r.st, env) /\ UNCHANGED <<shadow, written>>

DoWrite(r, va, bytes, env) ==
  /\ Account(r.st, env)
  /\ shadow' = IF r.rc = RC_OK THEN ShadowWrite(shadow, va, bytes) ELSE shadow
  /\ written' = IF r.rc = RC_OK THEN written \cup {va \div PAGESIZE} ELSE written

ReadR ==
  /\ CanCall
  /\ \E va \in Vas, len \in Lens, env \in Envs :
       /\ InSpan(va, len)
       /\ \E oob \in OobFor(va) :
            DoRead(cli_emu_vmm_read_r(Start(oob), va, len, env), env)

ReadX ==
  /\ CanCall
  /\ \E va \in Vas, len \in Lens, env \in Envs :
       /\ InSpan(va, len)
       /\ \E oob \in OobFor(va) :
            DoRead(cli_emu_vmm_read_x(Start(oob), va, len, env), env)

Read8 ==
  /\ CanCall
  /\ \E va \in Vas, env \in Envs, a0 \in GarbageVals :
       /\ InSpan(va, 1)
       /\ \E oob \in OobFor(va) :
            DoRead(cli_emu_vmm_read8(Start(oob), va, a0, env), env)

Read16 ==
  /\ CanCall
  /\ \E va \in Vas, env \in Envs, a0 \in GarbageVals :
       /\ InSpan(va, 2)
       /\ \E oob \in OobFor(va) :
            DoRead(cli_emu_vmm_read16(Start(oob), va, a0, env), env)

Read32 ==
  /\ CanCall
  /\ \E va \in Vas, env \in Envs, a0 \in GarbageVals :
       /\ InSpan(va, 4)
       /\ \E oob \in OobFor(va) :
            DoRead(cli_emu_vmm_read32(Start(oob), va, a0, env), env)

Write8 ==
  /\ CanCall
  /\ \E va \in Vas, value \in WriteVals, env \in Envs :
       /\ InSpan(va, 1)
       /\ \E oob \in OobFor(va) :
            DoWrite(cli_emu_vmm_write8(Start(oob), va, value, env),
                    va, ToLE(Narrow(value, 1), 1), env)

Write16 ==
  /\ CanCall
  /\ \E va \in Vas, value \in WriteVals, env \in Envs :
       /\ InSpan(va, 2)
       /\ \E oob \in OobFor(va) :
            DoWrite(cli_emu_vmm_write16(Start(oob), va, value, env),
                    va, ToLE(Narrow(value, 2), 2), env)

Write32 ==
  /\ CanCall
  /\ \E va \in Vas, value \in WriteVals, env \in Envs :
       /\ InSpan(va, 4)
       /\ \E oob \in OobFor(va) :
            DoWrite(cli_emu_vmm_write32(Start(oob), va, value, env),
                    va, ToLE(Narrow(value, 4), 4), env)

ProtSet ==
  /\ CanCall
  /\ \E va \in Vas, rwx \in ProtVals, ret \in {RC_OK, RC_GARBAGE} :
       /\ Account(cli_emu_vmm_prot_set(Start(ZeroPage), va, rwx, ret).st, EnvOk)
       /\ UNCHANGED <<shadow, written>>

ProtGet ==
  /\ CanCall
  /\ \E va \in Vas :
       /\ cli_emu_vmm_prot_get(Start(ZeroPage), va).rc \in {RC_OK, EMU_ERR_GENERIC}
       /\ nops' = nops + 1
       /\ UNCHANGED <<pc, img, v, ioFails, slotPage, shadow, written, evicted,
                      loaded, corrupt, mode>>

Next ==
  \/ New
  \/ ReadR
  \/ ReadX
  \/ Read8
  \/ Read16
  \/ Read32
  \/ Write8
  \/ Write16
  \/ Write32
  \/ ProtSet
  \/ ProtGet

Spec == Init /\ [][Next]_vars

(***************************************************************************)
(* Construction alone, over every generated layout.                        *)
(***************************************************************************)
InitNew == InitWith(GenImages, "any")

NextNew == New

SpecNew == InitNew /\ [][NextNew]_vars

(***************************************************************************)
(* A sequential run over ImgBig: call number k touches page k, reading or  *)
(* writing its first four bytes; a system call may fail in it.             *)
(***************************************************************************)
InitSeq == InitWith({ImgBig}, "seq")

CanSeq == pc = "run" /\ mode = "seq" /\ nops < v.n_pages

SeqRead ==
  /\ CanSeq
  /\ \E a0 \in GarbageVals, env \in Envs :
       DoRead(cli_emu_vmm_read32(Start(ZeroPage), nops * PAGESIZE, a0, env), env)

SeqWrite ==
  /\ CanSeq
  /\ Cardinality(written) < MaxSeqWrites
  /\ \E value \in WriteVals, env \in Envs :
       DoWrite(cli_emu_vmm_write32(Start(ZeroPage), nops * PAGESIZE, value, env),
               nops * PAGESIZE, ToLE(Narrow(value, 4), 4), env)

NextSeq == New \/ SeqRead \/ SeqWrite

SpecSeq == InitSeq /\ [][NextSeq]_vars

(***************************************************************************)
(* A run over ImgBig of accesses that begin in the last bytes of a page    *)
(* and end in the next page.  The caller walks up the image: it touches    *)
(* the lowest even page that is not resident (with the page after it), or  *)
(* again the page it had loaded last; it may also read the last page,      *)
(* which has no page after it.  An access whose copy leaves the member     *)
(* data is outside what C defines: the copy goes where the layout of       *)
(* struct emu_vmm puts it, or a build that checks copies stops the         *)
(* process.  The run ends when cached_idx no longer names a slot.          *)
(***************************************************************************)
InitCross == InitWith({ImgBig}, "cross")

CanCross ==
  pc = "run" /\ mode = "cross" /\ nops < MaxCrossOps /\ v.cached_idx < NCACHED

FreshPages ==
  {p \in 0 .. v.n_pages - 2 :
     /\ p % 2 = 0
     /\ v.page_flags[p].cached_page_idx = 0
     /\ v.page_flags[p + 1].cached_page_idx = 0}

CrossPages ==
  {p \in FreshPages : \A q \in FreshPages : p <= q} \cup
  {p \in 0 .. v.n_pages - 2 : Len(loaded) > 0 /\ p = loaded[Len(loaded)]}

\* a copy of len bytes from offset off of a page on leaves the page
Crosses(off, len) == off + len > PAGESIZE

CrossRead ==
  /\ CanCross
  /\ \E p \in CrossPages, off \in TailOffs, len \in Lens :
       /\ Crosses(off, len)
       /\ Tally(cli_emu_vmm_read_r(Start(ZeroPage), p * PAGESIZE + off, len,
                                   EnvOk).st, EnvOk)
       /\ pc' \in {"run"} \cup
                  (IF cli_emu_vmm_read_r(Start(ZeroPage), p * PAGESIZE + off, len,
                                         EnvOk).rc = RC_OK
                     THEN {"abort"} ELSE {})
       /\ UNCHANGED <<shadow, written>>

\* cli_emu_vmm_write16 or cli_emu_vmm_write32, by the width len
TypedWrite(st, va, value, len, env) ==
  IF len = 2 THEN cli_emu_vmm_write16(st, va, value, env)
  ELSE cli_emu_vmm_write32(st, va, value, env)

CrossWrite ==
  /\ CanCross
  /\ Cardinality(written) < MaxCrossWrites
  /\ \E p \in CrossPages, off \in TailOffs, len \in {2, 4}, value \in WriteVals :
       /\ Crosses(off, len)
       /\ Tally(TypedWrite(Start(ZeroPage), p * PAGESIZE + off, value, len,
                           EnvOk).st, EnvOk)
       /\ pc' \in {"run"} \cup
                  (IF TypedWrite(Start(ZeroPage), p * PAGESIZE + off, value, len,
                                 EnvOk).rc = RC_OK
                     THEN {"abort"} ELSE {})
       /\ shadow' =
            IF TypedWrite(Start(ZeroPage), p * PAGESIZE + off, value, len,
                          EnvOk).rc = RC_OK
              THEN ShadowWrite(shadow, p * PAGESIZE + off, ToLE(Narrow(value, len), len))
              ELSE shadow
       /\ written' =
            IF TypedWrite(Start(ZeroPage), p * PAGESIZE + off, value, len,
                          EnvOk).rc = RC_OK
              THEN written \cup {p} ELSE written

\* a read of the first bytes of the last page
LastRead ==
  /\ CanCross
  /\ v.page_flags[v.n_pages - 1].cached_page_idx = 0
  /\ \E a0 \in GarbageVals :
       DoRead(cli_emu_vmm_read32(Start(ZeroPage), (v.n_pages - 1) * PAGESIZE, a0,
                                 EnvOk), EnvOk)

NextCross == New \/ CrossRead \/ CrossWrite \/ LastRead

SpecCross == InitCross /\ [][NextCross]_vars

(***************************************************************************)
(* Properties.  A property about a call is stated over every reachable     *)
(* state: it applies the handler to the state and looks at what the call   *)
(* returns and at the state it leaves.                                     *)
(***************************************************************************)
InBounds(va) == va \div PAGESIZE < v.n_pages

PageOf(va) == v.page_flags[va \div PAGESIZE]

\* the addresses of the first bytes of the pages of the image
PageVas(vm) == {p * PAGESIZE : p \in 0 .. vm.n_pages - 1}

\* the len bytes of the scanned file from position pos on
FileBytes(pos, len) == [k \in 1 .. len |-> FileByte(pos + k - 1)]

ZeroBytes(len) == [k \in 1 .. len |-> 0]

ReadGives(r, bytes) == r.rc = RC_OK /\ r.bytes = bytes

UsedOob(ev) == \E k \in 1 .. Len(ev) : ev[k][1] = "oob"

\* C1: in every state, for every address a in a page with read and write
\* permission at which a write succeeded (and no overlapping write since), a
\* read of the same width at a succeeds and returns the bytes written.
C1_WriteThenRead ==
  (pc = "run" /\ ioFails = 0) =>
    \A va \in DOMAIN shadow :
      (InBounds(va) /\ {flag_r, flag_w} \subseteq PageOf(va).flag_rwx) =>
        ReadGives(cli_emu_vmm_read_r(Start(ZeroPage), va, Len(shadow[va]), EnvOk),
                  shadow[va])

\* an access that was refused without touching anything behind the page table
Rejected(r) == r.rc # RC_OK /\ ~UsedOob(r.st.ev) /\ ~r.st.corrupt

\* C3: in every state, a read, an execute-read and a write at an address at or
\* beyond n_pages * 4096 return an error and use no entry behind the page table.
C3_OutOfBoundsRejected ==
  pc = "run" =>
    \A va \in Vas :
      ~InBounds(va) =>
        \A oob \in OobFor(va) :
          /\ Rejected(cli_emu_vmm_read_r(Start(oob), va, 1, EnvOk))
          /\ Rejected(cli_emu_vmm_read_x(Start(oob), va, 1, EnvOk))
          /\ Rejected(cli_emu_vmm_write8(Start(oob), va, 1, EnvOk))

\* the page table as cli_emu_vmm_new built it
BuiltPages == cli_emu_vmm_new(img).v.page_flags

\* the pages that lie wholly before the first section
HeaderVas == {a \in PageVas(v) : a + PAGESIZE <= img.sections[1].rva}

\* C5: in every state, a read of a readable page of a section that map_pages
\* left uninitialized and that no write was made to succeeds and returns zeros.
C5_UninitReadsZero ==
  (pc = "run" /\ ioFails = 0) =>
    \A va \in PageVas(v) \ HeaderVas :
      (/\ BuiltPages[va \div PAGESIZE].init = 0
       /\ va \div PAGESIZE \notin written
       /\ flag_r \in PageOf(va).flag_rwx) =>
        ReadGives(cli_emu_vmm_read_r(Start(ZeroPage), va, 4, EnvOk), ZeroBytes(4))

Readable(sec) ==
  HasBit(sec.chr, IMAGE_SCN_MEM_READ) /\
  ~HasBit(sec.chr, IMAGE_SCN_CNT_UNINITIALIZED_DATA)

ReadsValue(r, value) == r.rc = RC_OK /\ r.value = value

\* C6: right after construction, for every readable initialized section,
\* read32 at image base + rva succeeds and returns the little-endian value of
\* the four file bytes at the section's raw offset.
C6_AddressesIncludeBase ==
  (pc = "run" /\ nops = 0) =>
    \A i \in 1 .. Len(img.sections) :
      (Readable(img.sections[i]) /\ img.sections[i].rva % PAGESIZE = 0) =>
        \A a0 \in GarbageVals :
          ReadsValue(
            cli_emu_vmm_read32(Start(ZeroPage),
                               img.ImageBase + img.sections[i].rva, a0, EnvOk),
            FromLE(FileBytes(img.sections[i].raw, 4)))

ProtSetThenGet(r, va, rwx) ==
  /\ r.rc = RC_OK
  /\ cli_emu_vmm_prot_get(r.st, va) = [rc |-> RC_OK, prot |-> rwx]

\* C7: in every state, setProtection on an in-bounds page reports success and
\* a following getProtection returns exactly the bits set.
C7_ProtSetSucceeds ==
  pc = "run" =>
    \A va \in PageVas(v), rwx \in ProtVals, ret \in {RC_OK, RC_GARBAGE} :
      ProtSetThenGet(cli_emu_vmm_prot_set(Start(ZeroPage), va, rwx, ret), va, rwx)

\* C8: right after construction, a read of a header page returns the bytes of
\* the file at the same offset, and a write to it is refused.
C8_HeaderBackedByFile ==
  (pc = "run" /\ nops = 0) =>
    \A va \in HeaderVas :
      /\ ReadGives(cli_emu_vmm_read_r(Start(ZeroPage), va, 4, EnvOk),
                   FileBytes(va, 4))
      /\ cli_emu_vmm_write8(Start(ZeroPage), va, 1, EnvOk).rc # RC_OK

\* the first addresses, in each page they touch, of the sections flagged
\* uninitialized data
BssVas ==
  UNION {{a \in PageVas(v) \cup {img.sections[i].rva} :
            /\ a >= img.sections[i].rva
            /\ a < img.sections[i].rva + img.sections[i].vsz
            /\ a + 3 < img.sections[i].rva + img.sections[i].vsz
            /\ (a % PAGESIZE) + 3 <= MaxOff} :
         i \in {k \in 1 .. Len(img.sections) :
                  HasBit(img.sections[k].chr, IMAGE_SCN_CNT_UNINITIALIZED_DATA)}}

\* C9: right after construction, a read inside a section flagged
\* uninitialized data (the section is readable) succeeds and returns zeros.
C9_BssReadsZero ==
  (pc = "run" /\ nops = 0) =>
    \A va \in BssVas :
      flag_r \in PageOf(va).flag_rwx =>
        ReadGives(cli_emu_vmm_read_r(Start(ZeroPage), va, 4, EnvOk), ZeroBytes(4))

\* what a caller sees of a call: its return code and the bytes it got
Seen(r) == <<r.rc, r.bytes>>

\* what reads of the first bytes of every page of vm return
ObserveAll(vm) ==
  [a \in PageVas(vm) |->
     Seen(cli_emu_vmm_read_r(StartOf(vm, ZeroPage), a, 4, EnvOk))]

DeniedCleanly(r) ==
  r.rc = EMU_ERR_VMM_WRITE /\ ObserveAll(r.st.v) = ObserveAll(v)

\* C4: in every state, a write to a page without the write bit returns the
\* write error, and reads of every page return afterwards what they would have
\* returned before it.
C4_DeniedWriteNoEffect ==
  (pc = "run" /\ ioFails = 0) =>
    \A va \in PageVas(v) :
      flag_w \notin PageOf(va).flag_rwx =>
        DeniedCleanly(cli_emu_vmm_write32(Start(ZeroPage), va, 1, EnvOk))

\* the bytes of the temporary file at the offset of page entry e
TmpBytes(e, len) ==
  [k \in 1 .. len |->
     IF e.file_offset * MINALIGN + k - 1 \in DOMAIN v.tmpdata
       THEN v.tmpdata[e.file_offset * MINALIGN + k - 1]
       ELSE UNTRACKED]

\* C2: in a sequential run in which no system call failed, while at most 15
\* pages were paged in each is still in the slot it was put into, the 16th
\* page-in takes the slot of the first, and every written page whose slot was
\* paged out is marked modified, has its written bytes in the temporary file
\* at its own offset, and reads back as written.
C2_EvictionPersists ==
  (pc = "run" /\ ioFails = 0) =>
    /\ Len(loaded) <= NCACHED =>
         \A k \in 1 .. Len(loaded) : slotPage[k - 1] = loaded[k]
    /\ Len(loaded) = NCACHED + 1 => slotPage[0] = loaded[NCACHED + 1]
    /\ \A pg \in evicted \cap written :
         pg * PAGESIZE \in DOMAIN shadow =>
           /\ v.page_flags[pg].modified = 1
           /\ TmpBytes(v.page_flags[pg], Len(shadow[pg * PAGESIZE]))
                = shadow[pg * PAGESIZE]
           /\ ReadGives(cli_emu_vmm_read_r(Start(ZeroPage), pg * PAGESIZE,
                                           Len(shadow[pg * PAGESIZE]), EnvOk),
                        shadow[pg * PAGESIZE])

\* some section does not start where the previous one ends
HasBreak(sections) ==
  \E i \in 2 .. Len(sections) :
    sections[i].rva # sections[i - 1].rva + sections[i - 1].vsz

\* C10: once cli_emu_vmm_new has run on an image one of whose sections does
\* not start where the previous one ends, there is no address space.
C10_DiscontiguousRejected ==
  (pc # "new" /\ HasBreak(img.sections)) => pc # "run"

\* construction returned NULL for two sections with a gap between them
C10_Witness ==
  /\ pc = "null"
  /\ Len(img.sections) = 2
  /\ img.sections[2].rva > img.sections[1].rva + img.sections[1].vsz

\* the pages of the image
Pages == 0 .. v.n_pages - 1

\* the pages map_pages backed by the file and no write has succeeded on
CleanPages == {q \in Pages : BuiltPages[q].init = 1 /\ q \notin written}

\* C11: in every state of a run in which no system call failed, every
\* file-backed page that was never written still has modified = 0 and the
\* file offset map_pages gave it, and when it is not resident a read of it
\* succeeds and returns the file's bytes at that offset.
C11_OtherPagesUntouched ==
  (pc = "run" /\ ioFails = 0) =>
    \A q \in CleanPages :
      /\ v.page_flags[q].modified = 0
      /\ v.page_flags[q].file_offset = BuiltPages[q].file_offset
      /\ (v.page_flags[q].cached_page_idx = 0 /\ flag_r \in v.page_flags[q].flag_rwx) =>
           ReadGives(cli_emu_vmm_read_r(Start(ZeroPage), q * PAGESIZE, 4, EnvOk),
                     FileBytes(BuiltPages[q].file_offset * MINALIGN, 4))

\* C12: in every state no two cache slots hold the same page.
C12_OneSlotPerPage ==
  pc = "run" =>
    \A s, t \in DOMAIN slotPage :
      (s # t /\ slotPage[s] # -1) => slotPage[s] # slotPage[t]

\* C13: in every state of a run in which no system call failed, a page table
\* entry that names a slot belongs to a page that some slot holds, and no two
\* entries name the same slot.
C13_EvictionClearsEntry ==
  (pc = "run" /\ ioFails = 0) =>
    \A p \in Pages :
      v.page_flags[p].cached_page_idx # 0 =>
        /\ \E s \in DOMAIN slotPage : slotPage[s] = p
        /\ \A q \in Pages \ {p} :
             v.page_flags[q].cached_page_idx # v.page_flags[p].cached_page_idx

\* the page-ins <<slot, page>> among the events ev
PageIns(ev) == {<<ev[k][2], ev[k][3]>> : k \in {j \in 1 .. Len(ev) : ev[j][1] = "in"}}

\* after the call that left st, every page it paged in is recorded in the slot
\* it was put into
RecordsSlot(st) ==
  \A e \in PageIns(st.ev) :
    e[2] < st.v.n_pages => st.v.page_flags[e[2]].cached_page_idx = e[1] + 1

\* the same access made again right after the call that returned r
Again(r, va) ==
  cli_emu_vmm_read_r(StartOf(r.st.v, ZeroPage), va, 4, EnvOk)

\* C14: in every state, a read of a page that is not resident records for
\* each page it loads the slot that was filled, and the same read made again
\* loads nothing and returns the same result and bytes.
C14_EntryNamesFilledSlot ==
  (pc = "run" /\ ioFails = 0) =>
    \A va \in PageVas(v) :
      PageOf(va).cached_page_idx = 0 =>
        /\ RecordsSlot(cli_emu_vmm_read_r(Start(ZeroPage), va, 4, EnvOk).st)
        /\ PageIns(Again(cli_emu_vmm_read_r(Start(ZeroPage), va, 4, EnvOk), va).st.ev) = {}
        /\ Seen(Again(cli_emu_vmm_read_r(Start(ZeroPage), va, 4, EnvOk), va))
             = Seen(cli_emu_vmm_read_r(Start(ZeroPage), va, 4, EnvOk))

\* C15: in every state, when the last used page is a page of the image, the
\* slot recorded with it holds that page.
C15_FastPathCoherent ==
  (pc = "run" /\ v.lastused_page \in Pages) =>
    /\ v.lastused_page_idx \in DOMAIN slotPage
    /\ slotPage[v.lastused_page_idx] = v.lastused_page

\* C18: in every state, a page marked modified has a temporary file behind it
\* and an offset inside the part of it handed out so far, on a page boundary
\* of that file; a page not marked modified has the offset map_pages gave it.
C18_OffsetFollowsModified ==
  pc = "run" =>
    \A p \in Pages :
      IF v.page_flags[p].modified = 1
        THEN /\ v.tmpfd # NOFD
             /\ v.page_flags[p].file_offset < v.tmpfd_written
             /\ v.page_flags[p].file_offset % (PAGESIZE \div MINALIGN) = 0
        ELSE v.page_flags[p].file_offset = BuiltPages[p].file_offset

\* the pread of the requested page fails, every other system call succeeds
EnvPreadFails == [EnvOk EXCEPT !.pread = FALSE]

\* the call that returned r had its pread for page pg fail
PreadFailed(r, pg) ==
  \E k \in 1 .. Len(r.st.ev) : r.st.ev[k] = <<"fail", "pread", pg>>

\* r is an error, page pg is left without a slot, and the same access made
\* again either loads pg or is an error too
FailedLoadForgotten(r, va) ==
  /\ r.rc # RC_OK
  /\ r.st.v.page_flags[va \div PAGESIZE].cached_page_idx = 0
  /\ \/ Again(r, va).rc # RC_OK
     \/ \E e \in PageIns(Again(r, va).st.ev) : e[2] = va \div PAGESIZE

\* C19: in every state, when a read of a page has the pread that loads that
\* page fail, the read returns an error, the page's entry names no slot, and
\* the same read made again loads the page again or fails.
C19_FailedLoadNotResident ==
  pc = "run" =>
    \A va \in PageVas(v) :
      PreadFailed(cli_emu_vmm_read_r(Start(ZeroPage), va, 4, EnvPreadFails),
                  va \div PAGESIZE) =>
        FailedLoadForgotten(
          cli_emu_vmm_read_r(Start(ZeroPage), va, 4, EnvPreadFails), va)

\* what setting rwx on the page of va and then reading (as data and as code)
\* and writing there returns: each call starts from the state the set left
AfterProtSet(va, rwx) ==
  [r |-> cli_emu_vmm_read_r(
           StartOf(cli_emu_vmm_prot_set(Start(ZeroPage), va, rwx, RC_OK).st.v,
                   ZeroPage), va, 1, EnvOk).rc = RC_OK,
   x |-> cli_emu_vmm_read_x(
           StartOf(cli_emu_vmm_prot_set(Start(ZeroPage), va, rwx, RC_OK).st.v,
                   ZeroPage), va, 1, EnvOk).rc = RC_OK,
   w |-> cli_emu_vmm_write8(
           StartOf(cli_emu_vmm_prot_set(Start(ZeroPage), va, rwx, RC_OK).st.v,
                   ZeroPage), va, 1, EnvOk).rc = RC_OK]

\* C20: in every state, after the permissions of a page are set to rwx, a
\* read, an execute-read and a write of that page succeed exactly when rwx has
\* the read, the execute and the write bit.
C20_ProtSetEnforced ==
  (pc = "run" /\ ioFails = 0) =>
    \A va \in PageVas(v), rwx \in ProtVals :
      AfterProtSet(va, rwx) =
        [r |-> flag_r \in rwx, x |-> flag_x \in rwx, w |-> flag_w \in rwx]

\* the addresses in the last bytes of the pages that have a page after them
CrossVas == {p * PAGESIZE + off : p \in 0 .. v.n_pages - 2, off \in TailOffs}

\* which page each slot holds after the call that left st
SlotsAfter(st) ==
  ApplyEv([sp |-> slotPage, out |-> evicted, ld |-> loaded], st.ev).sp

\* r is what vmm_cache_2page returned for va: a slot that holds the page of
\* va, is not the last of the pool and is followed by the slot that holds the
\* next page
NextPageFollows(r, va) ==
  /\ r.c # NULLSLOT
  /\ r.c + 1 < NCACHED
  /\ SlotsAfter(r.st)[r.c] = va \div PAGESIZE
  /\ SlotsAfter(r.st)[r.c + 1] = (va \div PAGESIZE) + 1

\* the file's bytes behind the len bytes from va on, page by page
FileBytesAt(va, len) ==
  [k \in 1 .. len |->
     FileByte(BuiltPages[(va + k - 1) \div PAGESIZE].file_offset * MINALIGN
              + ((va + k - 1) % PAGESIZE))]

\* w is what a write of value at va returned: it succeeded, and a read of the
\* first byte of the next page returns the first byte of value that lies
\* behind the boundary
WroteNextPage(w, va, value) ==
  /\ w.rc = RC_OK
  /\ ReadGives(
       cli_emu_vmm_read_r(StartOf(w.st.v, ZeroPage),
                          ((va \div PAGESIZE) + 1) * PAGESIZE, 1, EnvOk),
       << value[PAGESIZE - (va % PAGESIZE) + 1] >>)

\* C16: in every state in which nothing was written yet, for every access of
\* up to 4 bytes that begins in a readable page and ends in the next one:
\* resolving the address leaves the page in a slot that the next page's slot
\* follows inside the pool, a read returns the file's last bytes of the page
\* followed by the file's first bytes of the next page, and after a write (to
\* writable pages) the next page begins with the bytes written behind the
\* boundary.
C16_CrossPageAccess ==
  (pc = "run" /\ v.cached_idx < NCACHED /\ written = {} /\ ioFails = 0) =>
    \A va \in CrossVas, len \in Lens :
      (/\ Crosses(va % PAGESIZE, len)
       /\ flag_r \in PageOf(va).flag_rwx
       /\ flag_r \in PageOf(va + PAGESIZE).flag_rwx
       /\ BuiltPages[va \div PAGESIZE].init = 1
       /\ BuiltPages[(va \div PAGESIZE) + 1].init = 1) =>
        /\ NextPageFollows(vmm_cache_2page(Start(ZeroPage), va, EnvOk), va)
        /\ ReadGives(cli_emu_vmm_read_r(Start(ZeroPage), va, len, EnvOk),
                     FileBytesAt(va, len))
        /\ (/\ flag_w \in PageOf(va).flag_rwx
            /\ flag_w \in PageOf(va + PAGESIZE).flag_rwx) =>
             \A value \in WriteVals :
               WroteNextPage(
                 cli_emu_vmm_write(Start(ZeroPage), va, ToLE(value, 4), EnvOk),
                 va, ToLE(value, 4))

\* the slots of the page-ins among the events ev, in order
RECURSIVE InSlots(_)
InSlots(ev) ==
  IF Len(ev) = 0 THEN << >>
  ELSE IF ev[1][1] = "in" THEN << ev[1][2] >> \o InSlots(Tail(ev))
  ELSE InSlots(Tail(ev))

\* the slots filled are start, start + 1, ... in cyclic order
FillsInTurn(slots, start) ==
  \A k \in 1 .. Len(slots) : slots[k] = (start + k - 1) % NCACHED

\* C17: in every state cached_idx is one of 0..14, the page loaded last is in
\* the slot before cached_idx (cyclically), and the page-ins of the next
\* access fill the slots from cached_idx on in cyclic order, whichever pages
\* were used before.
C17_RoundRobin ==
  pc = "run" =>
    /\ v.cached_idx \in 0 .. NCACHED - 1
    /\ Len(loaded) > 0 =>
         slotPage[(v.cached_idx + NCACHED - 1) % NCACHED] = loaded[Len(loaded)]
    /\ \A va \in PageVas(v) :
         FillsInTurn(
           InSlots(cli_emu_vmm_read_r(Start(ZeroPage), va, 1, EnvOk).st.ev),
           v.cached_idx)

====
